---- MODULE Spec2Model ----
(***************************************************************************)
(* Energy Bench Leaderboard (app1.py): the four module-level DataFrames    *)
(* loaded by read_csv, and main(), which renders the Forecasting, Anomaly  *)
(* Detection, Classification, Imputation and About tabs in that order.     *)
(*                                                                         *)
(* A DataFrame is a record [cols, rows]: cols is the sequence of column    *)
(* names, rows the sequence of rows, each row a function from column name  *)
(* to cell.  A displayed table is [name, cols, idx, sort_col]: idx is the  *)
(* sequence of positions (in the raw DataFrame) of the rows it shows, in   *)
(* display order.  reset_index(drop=True) together with hide_index=True    *)
(* leaves nothing of the pandas index visible, so the raw position is kept *)
(* only to tell rows apart.                                                *)
(***************************************************************************)
EXTENDS Integers, Sequences, FiniteSets, TLC

VARIABLES
    csv,                      \* the rows of the CSV files, as shapes (see Shapes)
    RAW_FORECASTING_DATA,
    RAW_ANOMALY_DATA,
    RAW_CLASSIFICATION_DATA,
    RAW_IMPUTATION_DATA,
    pc,                       \* position of main(): the tab about to run, the end of a
                              \* tab's with-block, or how main() ended
    view,                     \* the widget values read and the elements shown by the tab
                              \* whose with-block main() is in
    rendered                  \* tabs whose body ran to its end in this execution of main()

vars == <<csv, RAW_FORECASTING_DATA, RAW_ANOMALY_DATA, RAW_CLASSIFICATION_DATA,
          RAW_IMPUTATION_DATA, pc, view, rendered>>

-----------------------------------------------------------------------------
(* Bounds of the model *)

\* most rows a CSV file holds
MaxRows == 2

\* a missing numeric cell (NaN); every present metric value is >= 0
NA == -1

\* a missing Type cell (read_csv parses an empty cell, and the text "NaN", as NaN)
NaN == "NaN"

Vals == {NA, 1, 2}

Tasks == {"Forecasting", "Anomaly", "Classification", "Imputation"}

-----------------------------------------------------------------------------
(* Helpers on sequences *)

Range(s) == {s[i] : i \in 1..Len(s)}

\* the subsequence of s whose elements are in S, in the order of s
Keep(s, S) == SelectSeq(s, LAMBDA x: x \in S)

\* Series.unique(): the distinct values in order of first occurrence
RECURSIVE Unique(_)
Unique(s) ==
    IF s = <<>> THEN <<>>
    ELSE LET u == Unique(SubSeq(s, 1, Len(s) - 1))
             x == s[Len(s)]
         IN IF x \in Range(u) THEN u ELSE Append(u, x)

\* all orderings of the elements of a duplicate-free sequence
Perms(s) ==
    {p \in [1..Len(s) -> Range(s)] : \A i, j \in 1..Len(s) : i # j => p[i] # p[j]}

-----------------------------------------------------------------------------
(* Column definitions: main(), AVAILABLE COLUMN DEFINITIONS *)

OOD_COMM == "Out-of-distribution(OOD)_Commercial"
OOD_RES  == "Out-of-distribution(OOD)_Residential"
ID_COMM  == "In-Distribution(ID)_Commercial"
ID_RES   == "In-Distribution(ID)_Residential"

FORECASTING_AVAILABLE_COLS == <<OOD_COMM, OOD_RES, ID_COMM, ID_RES>>
FORECASTING_DEFAULT_COLS == FORECASTING_AVAILABLE_COLS

ANOMALY_AVAILABLE_COLS == <<"F1-score", "Precision", "Recall">>
ANOMALY_DEFAULT_COLS == ANOMALY_AVAILABLE_COLS

CLASSIFICATION_AVAILABLE_COLS == <<"F1-score", "Precision", "Recall">>
CLASSIFICATION_DEFAULT_COLS == CLASSIFICATION_AVAILABLE_COLS

IMPUTATION_AVAILABLE_COLS == <<"Mask", "MAE", "MSE">>
IMPUTATION_DEFAULT_COLS == IMPUTATION_AVAILABLE_COLS

AvailableCols(t) ==
    CASE t = "Forecasting"    -> FORECASTING_AVAILABLE_COLS
      [] t = "Anomaly"        -> ANOMALY_AVAILABLE_COLS
      [] t = "Classification" -> CLASSIFICATION_AVAILABLE_COLS
      [] t = "Imputation"     -> IMPUTATION_AVAILABLE_COLS

\* 'Commercial' in col, 'Residential' in col: the substring tests of the
\* Forecasting tab, over the column names that reach them
HasCommercial(col) == col \in {OOD_COMM, ID_COMM}
HasResidential(col) == col \in {OOD_RES, ID_RES}

\* the icon_map of each tab; a Type outside its domain maps to NaN
ForecastingIconMap ==
    [ty \in {"Baseline", "ML/DL", "Zero-shot", "Fine-tuned", "Pre-trained", "Unknown"} |->
        CASE ty = "Baseline" -> "white_circle"
          [] ty = "ML/DL" -> "blue_diamond"
          [] ty = "Zero-shot" -> "red_circle"
          [] ty = "Fine-tuned" -> "purple_circle"
          [] ty = "Pre-trained" -> "green_circle"
          [] ty = "Unknown" -> "question"]

AnomalyIconMap ==
    [ty \in {"Statistical", "ML/DL", "Zero-shot", "Fine-tuned", "Pre-trained"} |->
        CASE ty = "Statistical" -> "orange_diamond"
          [] ty = "ML/DL" -> "blue_diamond"
          [] ty = "Zero-shot" -> "red_circle"
          [] ty = "Fine-tuned" -> "purple_circle"
          [] ty = "Pre-trained" -> "green_circle"]

ClassificationIconMap ==
    [ty \in {"ML/DL", "Fine-tuned", "Pre-trained", "Unknown"} |->
        CASE ty = "ML/DL" -> "blue_diamond"
          [] ty = "Fine-tuned" -> "purple_circle"
          [] ty = "Pre-trained" -> "green_circle"
          [] ty = "Unknown" -> "question"]

ImputationIconMap ==
    [ty \in {"Baseline", "ML/DL", "Zero-shot", "Fine-tuned", "Unknown"} |->
        CASE ty = "Baseline" -> "white_circle"
          [] ty = "ML/DL" -> "blue_diamond"
          [] ty = "Zero-shot" -> "red_circle"
          [] ty = "Fine-tuned" -> "purple_circle"
          [] ty = "Unknown" -> "question"]

-----------------------------------------------------------------------------
(* The loaded DataFrames *)

\* a CSV row of task t: Model, Type and the task's metric columns.  Within the
\* bounds every metric cell of a row holds the same value v, except Mask.
CsvRow(t, model, ty, v, mask) ==
    [c \in {"Model", "Type"} \cup Range(AvailableCols(t)) |->
        CASE c = "Model" -> model
          [] c = "Type" -> ty
          [] c = "Mask" -> mask
          [] OTHER -> v]

CsvCols(t) == <<"Model", "Type">> \o AvailableCols(t)

\* the shapes of the rows of a file, (Model, Type, metric value, Mask): model
\* M1 at mask 5 with a known or a missing Type and every metric value, and
\* rows that differ from these in the Model, in the Mask, or by a Type that
\* not every icon_map knows
Shapes ==
    ({"M1"} \X {"ML/DL", NaN} \X Vals \X {5})
    \cup {<<"M2", "ML/DL", 1, 5>>, <<"M1", "ML/DL", 1, 10>>,
          <<"M2", "Baseline", 2, 10>>, <<"M2", NaN, NA, 10>>}

\* the sequences of 1..MaxRows shapes
ShapeSeqs == UNION {[1..n -> Shapes] : n \in 1..MaxRows}

\* pd.read_csv("<task>.csv"): the DataFrame of task t, for a file whose rows
\* have the given shapes
read_csv(t, shapes) ==
    [cols |-> CsvCols(t),
     rows |-> [i \in 1..Len(shapes) |->
                 CsvRow(t, shapes[i][1], shapes[i][2], shapes[i][3], shapes[i][4])]]

\* Series.fillna("Unknown") on the Type column
FillnaType(df) ==
    [df EXCEPT !.rows = [i \in 1..Len(df.rows) |->
        [df.rows[i] EXCEPT !["Type"] = IF @ = NaN THEN "Unknown" ELSE @]]]

\* Series.map(icon_map): NaN for a Type the map lacks
MapIcon(icon_map, ty) == IF ty \in DOMAIN icon_map THEN icon_map[ty] ELSE NaN

\* Series.fillna("question mark") on the mapped icons
FillnaIcon(icon) == IF icon = NaN THEN "question" ELSE icon

\* DataFrame.insert(0, "Icon", icons): the caller has checked that the frame
\* has no Icon column (insert raises ValueError when it has)
InsertIcon(df, icons) ==
    [cols |-> <<"Icon">> \o df.cols,
     rows |-> [i \in 1..Len(df.rows) |->
        [c \in {"Icon"} \cup DOMAIN df.rows[i] |->
            IF c = "Icon" THEN icons[i] ELSE df.rows[i][c]]]]

\* the Type column as a sequence
TypeColumn(df) == [i \in 1..Len(df.rows) |-> df.rows[i]["Type"]]

\* str(model_type): the text of a Type; a NaN prints as "nan"
Str(ty) == IF ty = NaN THEN "nan" ELSE ty

\* icon_map.get(model_type, "question mark"): the icon of a checkbox label
IconGet(icon_map, ty) == IF ty \in DOMAIN icon_map THEN icon_map[ty] ELSE "question"

\* the model-type checkboxes a tab draws, one per unique Type in order: the
\* label f"{icon} {model_type}" as its icon and its text, and whether the
\* checkbox is checked
TypeCheckboxes(icon_map, unique_types, checked_types) ==
    [k \in 1..Len(unique_types) |->
        [icon |-> IconGet(icon_map, unique_types[k]),
         text |-> Str(unique_types[k]),
         checked |-> unique_types[k] \in checked_types]]

\* IsinType with a fallback to every row when nothing is selected
IsinTypeShowAll(df, selected) ==
    IF selected = {} THEN [i \in 1..Len(df.rows) |-> i]
    ELSE Keep([i \in 1..Len(df.rows) |-> i],
              {i \in 1..Len(df.rows) : df.rows[i]["Type"] \in selected})

\* df[df.Type.isin(selected)]: the positions of the rows kept, in order
\* (isin matches a NaN cell with a NaN in the list)
IsinType(df, selected) ==
    Keep([i \in 1..Len(df.rows) |-> i],
         {i \in 1..Len(df.rows) : df.rows[i]["Type"] \in selected})

\* rows idx of df whose Mask is in selected_masks
IsinMask(df, idx, selected_masks) ==
    Keep(idx, {i \in Range(idx) : df.rows[i]["Mask"] \in selected_masks})

-----------------------------------------------------------------------------
(* column_selector and DataFrame.sort_values *)

\* column_selector falling back to default_cols when no checkbox is checked
column_selector_default_fallback(available_cols, default_cols, checked) ==
    IF Keep(available_cols, checked) # <<>>
    THEN <<"Icon", "Model">> \o Keep(available_cols, checked)
    ELSE default_cols

\* column_selector(available_cols, default_cols, key_suffix), given the set of
\* column checkboxes that are checked
column_selector(available_cols, default_cols, checked) ==
    LET selected_cols == <<"Icon", "Model">> \o Keep(available_cols, checked)
    IN IF selected_cols # <<>> THEN selected_cols ELSE default_cols

\* WithIdentity without the "not in ['Icon', 'Model']" test
WithIdentityTwice(metrics) == <<"Icon", "Model">> \o metrics

\* ['Icon', 'Model'] + [col for col in metrics if col not in ['Icon', 'Model']]
WithIdentity(metrics) ==
    <<"Icon", "Model">> \o SelectSeq(metrics, LAMBDA c: c \notin {"Icon", "Model"})

\* the order sort_values puts two present values in
Ordered(a, b, ascending) == IF ascending THEN a <= b ELSE a >= b

\* sort_values with na_position='first'
sort_values_na_first(df, idx, by, ascending) ==
    LET present == Keep(idx, {i \in Range(idx) : df.rows[i][by] # NA})
        missing == Keep(idx, {i \in Range(idx) : df.rows[i][by] = NA})
    IN {missing \o p : p \in
          {q \in Perms(present) : \A k \in 1..(Len(present) - 1) :
              Ordered(df.rows[q[k]][by], df.rows[q[k + 1]][by], ascending)}}

\* df.sort_values(by=by, ascending=ascending) on the rows idx of df: the
\* orders the call can return.  The default kind is quicksort, which is not
\* stable: rows with equal keys come out in any order.  na_position is
\* 'last': the rows with a missing key follow, in the order they had.
sort_values(df, idx, by, ascending) ==
    LET present == Keep(idx, {i \in Range(idx) : df.rows[i][by] # NA})
        missing == Keep(idx, {i \in Range(idx) : df.rows[i][by] = NA})
    IN {p \o missing : p \in
          {q \in Perms(present) : \A k \in 1..(Len(present) - 1) :
              Ordered(df.rows[q[k]][by], df.rows[q[k + 1]][by], ascending)}}

\* the Anomaly tab sorting with ascending=True
AnomalyAscendingFlipped == TRUE

\* the sort direction each tab passes to sort_values
ForecastingAscending == TRUE
AnomalyAscending == FALSE
ClassificationAscending == FALSE
ImputationAscending == TRUE

\* "if sort_col in df.columns: sort_values(...) else: sort_col = None", then
\* st.dataframe(style_dataframe(df, sort_col, ...)): the tables that can be
\* shown.  style_dataframe formats the cells and does not read metric_col.
SortedTables(name, df, idx, cols, sort_col, ascending) ==
    IF sort_col \in Range(cols)
    THEN {[name |-> name, cols |-> cols, idx |-> p, sort_col |-> sort_col] :
             p \in sort_values(df, idx, sort_col, ascending)}
    ELSE {[name |-> name, cols |-> cols, idx |-> idx, sort_col |-> "None"]}

-----------------------------------------------------------------------------
(* main() *)

NoView ==
    [tab |-> "None", unique_types |-> <<>>, checkboxes |-> <<>>,
     checked_types |-> {}, checked_cols |-> {}, selected_cols |-> <<>>,
     show_commercial |-> FALSE, show_residential |-> FALSE,
     selected_masks |-> {}, tables |-> <<>>, warnings |-> {}]

MASK_WARNING == "Please select at least one Mask Percentage to display results."
FORECAST_WARNING == "Please select at least one building type filter and/or at least one metric column to display results."

Init ==
    \E shapes \in ShapeSeqs :
        /\ csv = shapes
        /\ RAW_ANOMALY_DATA = read_csv("Anomaly", shapes)
        /\ RAW_FORECASTING_DATA = read_csv("Forecasting", shapes)
        /\ RAW_CLASSIFICATION_DATA = read_csv("Classification", shapes)
        /\ RAW_IMPUTATION_DATA = read_csv("Imputation", shapes)
        /\ pc = "Forecasting"
        /\ view = NoView
        /\ rendered = {}

\* DataFrame.insert raises ValueError (the frame has an Icon column): the
\* exception leaves main() before the tab has drawn a checkbox
Raise(tab) ==
    /\ pc' = "Crashed"
    /\ view' = [NoView EXCEPT !.tab = tab]
    /\ UNCHANGED <<csv, rendered>>

\* with tab_Forecasting: ...
ForecastingTab ==
    /\ pc = "Forecasting"
    /\ UNCHANGED <<RAW_ANOMALY_DATA, RAW_CLASSIFICATION_DATA, RAW_IMPUTATION_DATA>>
    /\ LET filled == FillnaType(RAW_FORECASTING_DATA)
       IN IF "Icon" \in Range(filled.cols)
          THEN /\ RAW_FORECASTING_DATA' = filled
               /\ Raise("Forecasting")
          ELSE
            LET df == InsertIcon(filled, [i \in 1..Len(filled.rows) |->
                        FillnaIcon(MapIcon(ForecastingIconMap, filled.rows[i]["Type"]))])
                unique_types_forecast == Unique(TypeColumn(df))
            IN \E checked_types \in SUBSET Range(unique_types_forecast),
                  show_commercial \in BOOLEAN, show_residential \in BOOLEAN,
                  checked_cols \in SUBSET Range(FORECASTING_AVAILABLE_COLS) :
                LET selected_types_check == {Str(ty) : ty \in checked_types}
                    filtered_forecasting == IsinType(df, selected_types_check)
                    selected_cols_forecast_metrics ==
                        column_selector(FORECASTING_AVAILABLE_COLS,
                                        FORECASTING_DEFAULT_COLS, checked_cols)
                    comm_cols_to_show == SelectSeq(selected_cols_forecast_metrics, HasCommercial)
                    res_cols_to_show == SelectSeq(selected_cols_forecast_metrics, HasResidential)
                    base_cols == <<"Icon", "Model">>
                    comm == IF show_commercial /\ comm_cols_to_show # <<>>
                            THEN {<<tb>> : tb \in SortedTables("Commercial", df,
                                      filtered_forecasting, base_cols \o comm_cols_to_show,
                                      OOD_COMM, ForecastingAscending)}
                            ELSE {<<>>}
                    res == IF show_residential /\ res_cols_to_show # <<>>
                           THEN {<<tb>> : tb \in SortedTables("Residential", df,
                                     filtered_forecasting, base_cols \o res_cols_to_show,
                                     OOD_RES, ForecastingAscending)}
                           ELSE {<<>>}
                    warn == IF \/ (~show_commercial /\ ~show_residential)
                               \/ (comm_cols_to_show = <<>> /\ res_cols_to_show = <<>>)
                            THEN {FORECAST_WARNING} ELSE {}
                IN \E c \in comm, r \in res :
                    /\ RAW_FORECASTING_DATA' = df
                    /\ view' = [tab |-> "Forecasting",
                                unique_types |-> unique_types_forecast,
                                checkboxes |-> TypeCheckboxes(ForecastingIconMap, unique_types_forecast, checked_types),
                                selected_cols |-> selected_cols_forecast_metrics,
                                checked_types |-> checked_types,
                                checked_cols |-> checked_cols,
                                show_commercial |-> show_commercial,
                                show_residential |-> show_residential,
                                selected_masks |-> {},
                                tables |-> c \o r,
                                warnings |-> warn]
                    /\ rendered' = rendered \cup {"Forecasting"}
                    /\ pc' = "Forecasting:end"
                    /\ UNCHANGED csv

\* with tab_anomaly: ...  (the Type column is not filled here, and the icons
\* the map lacks stay NaN)
AnomalyTab ==
    /\ pc = "Anomaly"
    /\ UNCHANGED <<RAW_FORECASTING_DATA, RAW_CLASSIFICATION_DATA, RAW_IMPUTATION_DATA>>
    /\ IF "Icon" \in Range(RAW_ANOMALY_DATA.cols)
       THEN /\ UNCHANGED RAW_ANOMALY_DATA
            /\ Raise("Anomaly")
       ELSE
         LET df == InsertIcon(RAW_ANOMALY_DATA, [i \in 1..Len(RAW_ANOMALY_DATA.rows) |->
                     MapIcon(AnomalyIconMap, RAW_ANOMALY_DATA.rows[i]["Type"])])
             unique_types_anomaly == Unique(TypeColumn(df))
         IN \E checked_types \in SUBSET Range(unique_types_anomaly),
               checked_cols \in SUBSET Range(ANOMALY_AVAILABLE_COLS) :
             LET selected_types_check == checked_types
                 filtered_anomaly == IsinType(df, selected_types_check)
                 selected_cols_anomaly_metrics ==
                     column_selector(ANOMALY_AVAILABLE_COLS, ANOMALY_DEFAULT_COLS, checked_cols)
                 selected_cols_anomaly == WithIdentity(selected_cols_anomaly_metrics)
             IN \E tb \in SortedTables("Anomaly", df, filtered_anomaly,
                                       selected_cols_anomaly, "F1-score", AnomalyAscending) :
                 /\ RAW_ANOMALY_DATA' = df
                 /\ view' = [tab |-> "Anomaly",
                             unique_types |-> unique_types_anomaly,
                             checkboxes |-> TypeCheckboxes(AnomalyIconMap, unique_types_anomaly, checked_types),
                             selected_cols |-> selected_cols_anomaly_metrics,
                             checked_types |-> checked_types,
                             checked_cols |-> checked_cols,
                             show_commercial |-> FALSE,
                             show_residential |-> FALSE,
                             selected_masks |-> {},
                             tables |-> <<tb>>,
                             warnings |-> {}]
                 /\ rendered' = rendered \cup {"Anomaly"}
                 /\ pc' = "Anomaly:end"
                 /\ UNCHANGED csv

\* with tab_classification: ...
ClassificationTab ==
    /\ pc = "Classification"
    /\ UNCHANGED <<RAW_FORECASTING_DATA, RAW_ANOMALY_DATA, RAW_IMPUTATION_DATA>>
    /\ LET filled == FillnaType(RAW_CLASSIFICATION_DATA)
       IN IF "Icon" \in Range(filled.cols)
          THEN /\ RAW_CLASSIFICATION_DATA' = filled
               /\ Raise("Classification")
          ELSE
            LET df == InsertIcon(filled, [i \in 1..Len(filled.rows) |->
                        FillnaIcon(MapIcon(ClassificationIconMap, filled.rows[i]["Type"]))])
                unique_types_class == Unique(TypeColumn(df))
            IN \E checked_types \in SUBSET Range(unique_types_class),
                  checked_cols \in SUBSET Range(CLASSIFICATION_AVAILABLE_COLS) :
                LET selected_types_check == {Str(ty) : ty \in checked_types}
                    filtered_classification == IsinType(df, selected_types_check)
                    selected_cols_class_metrics ==
                        column_selector(CLASSIFICATION_AVAILABLE_COLS,
                                        CLASSIFICATION_DEFAULT_COLS, checked_cols)
                    selected_cols_class == WithIdentity(selected_cols_class_metrics)
                IN \E tb \in SortedTables("Classification", df, filtered_classification,
                                          selected_cols_class, "F1-score",
                                          ClassificationAscending) :
                    /\ RAW_CLASSIFICATION_DATA' = df
                    /\ view' = [tab |-> "Classification",
                                unique_types |-> unique_types_class,
                                checkboxes |-> TypeCheckboxes(ClassificationIconMap, unique_types_class, checked_types),
                                selected_cols |-> selected_cols_class_metrics,
                                checked_types |-> checked_types,
                                checked_cols |-> checked_cols,
                                show_commercial |-> FALSE,
                                show_residential |-> FALSE,
                                selected_masks |-> {},
                                tables |-> <<tb>>,
                                warnings |-> {}]
                    /\ rendered' = rendered \cup {"Classification"}
                    /\ pc' = "Classification:end"
                    /\ UNCHANGED csv

\* sorted(filtered_imputation_by_type.Mask.unique().tolist()), as a set
UniqueMasks(df, idx) == {df.rows[i]["Mask"] : i \in Range(idx)}

\* what st.columns(n) does: a spec that is no positive integer is rejected
\* with an exception by Streamlit's argument check; the check is not part of
\* this repository, so both outcomes of a call with n = 0 are kept
ColumnsOutcomes(n) == IF n > 0 THEN {"ok"} ELSE {"ok", "raise"}

\* with tab_imputation: ...
ImputationTab ==
    /\ pc = "Imputation"
    /\ UNCHANGED <<RAW_FORECASTING_DATA, RAW_ANOMALY_DATA, RAW_CLASSIFICATION_DATA>>
    /\ LET filled == FillnaType(RAW_IMPUTATION_DATA)
       IN IF "Icon" \in Range(filled.cols)
          THEN /\ RAW_IMPUTATION_DATA' = filled
               /\ Raise("Imputation")
          ELSE
            LET df == InsertIcon(filled, [i \in 1..Len(filled.rows) |->
                        FillnaIcon(MapIcon(ImputationIconMap, filled.rows[i]["Type"]))])
                unique_types_imput == Unique(TypeColumn(df))
            IN \E checked_types \in SUBSET Range(unique_types_imput) :
                LET selected_types_check == {Str(ty) : ty \in checked_types}
                    filtered_imputation_by_type == IsinType(df, selected_types_check)
                    unique_masks == UniqueMasks(df, filtered_imputation_by_type)
                IN \E columns \in ColumnsOutcomes(Cardinality(unique_masks)),
                      selected_masks \in SUBSET unique_masks,
                      checked_cols \in SUBSET Range(IMPUTATION_AVAILABLE_COLS) :
                    /\ RAW_IMPUTATION_DATA' = df
                    /\ IF columns = "raise"
                       THEN /\ pc' = "Crashed"
                            /\ view' = [NoView EXCEPT !.tab = "Imputation",
                                           !.unique_types = unique_types_imput,
                                           !.checkboxes = TypeCheckboxes(ImputationIconMap, unique_types_imput, checked_types),
                                           !.checked_types = checked_types]
                            /\ UNCHANGED <<csv, rendered>>
                       ELSE IF selected_masks = {}
                       THEN \* st.warning(...); st.stop(): the script ends here
                            /\ view' = [NoView EXCEPT !.tab = "Imputation",
                                           !.unique_types = unique_types_imput,
                                           !.checkboxes = TypeCheckboxes(ImputationIconMap, unique_types_imput, checked_types),
                                           !.checked_types = checked_types,
                                           !.warnings = {MASK_WARNING}]
                            /\ pc' = "Stopped"
                            /\ UNCHANGED <<csv, rendered>>
                       ELSE
                         LET filtered_imputation ==
                                 IsinMask(df, filtered_imputation_by_type, selected_masks)
                             selected_cols_imput_metrics ==
                                 column_selector(IMPUTATION_AVAILABLE_COLS,
                                                 IMPUTATION_DEFAULT_COLS, checked_cols)
                             selected_cols_imput == WithIdentity(selected_cols_imput_metrics)
                         IN \E tb \in SortedTables("Imputation", df, filtered_imputation,
                                                   selected_cols_imput, "MSE",
                                                   ImputationAscending) :
                             /\ view' = [tab |-> "Imputation",
                                         unique_types |-> unique_types_imput,
                                         checkboxes |-> TypeCheckboxes(ImputationIconMap, unique_types_imput, checked_types),
                                         selected_cols |-> selected_cols_imput_metrics,
                                         checked_types |-> checked_types,
                                         checked_cols |-> checked_cols,
                                         show_commercial |-> FALSE,
                                         show_residential |-> FALSE,
                                         selected_masks |-> selected_masks,
                                         tables |-> <<tb>>,
                                         warnings |-> {}]
                             /\ rendered' = rendered \cup {"Imputation"}
                             /\ pc' = "Imputation:end"
                             /\ UNCHANGED csv

\* the with-block of a task's tab is left: main() goes on to the next tab
NextTab(at) ==
    CASE at = "Forecasting:end"    -> "Anomaly"
      [] at = "Anomaly:end"        -> "Classification"
      [] at = "Classification:end" -> "Imputation"
      [] at = "Imputation:end"     -> "About"

LeaveTab ==
    /\ pc \in {"Forecasting:end", "Anomaly:end", "Classification:end", "Imputation:end"}
    /\ pc' = NextTab(pc)
    /\ view' = NoView
    /\ UNCHANGED <<csv, rendered, RAW_FORECASTING_DATA, RAW_ANOMALY_DATA,
                   RAW_CLASSIFICATION_DATA, RAW_IMPUTATION_DATA>>

\* with tab_about: ...
AboutTab ==
    /\ pc = "About"
    /\ pc' = "Done"
    /\ view' = [NoView EXCEPT !.tab = "About"]
    /\ rendered' = rendered \cup {"About"}
    /\ UNCHANGED <<csv, RAW_FORECASTING_DATA, RAW_ANOMALY_DATA,
                   RAW_CLASSIFICATION_DATA, RAW_IMPUTATION_DATA>>

Ended == pc \in {"Done", "Stopped", "Crashed"}

\* main() is called again in the same process, over the DataFrames as the
\* previous call left them
MainAgain ==
    /\ Ended
    /\ pc' = "Forecasting"
    /\ view' = NoView
    /\ rendered' = {}
    /\ UNCHANGED <<csv, RAW_FORECASTING_DATA, RAW_ANOMALY_DATA,
                   RAW_CLASSIFICATION_DATA, RAW_IMPUTATION_DATA>>

\* the script is run again from its first line (a Streamlit rerun): the
\* four read_csv calls load the files anew, then main() runs
Rerun ==
    /\ Ended
    /\ RAW_ANOMALY_DATA' = read_csv("Anomaly", csv)
    /\ RAW_FORECASTING_DATA' = read_csv("Forecasting", csv)
    /\ RAW_CLASSIFICATION_DATA' = read_csv("Classification", csv)
    /\ RAW_IMPUTATION_DATA' = read_csv("Imputation", csv)
    /\ pc' = "Forecasting"
    /\ view' = NoView
    /\ rendered' = {}
    /\ UNCHANGED csv

Next ==
    \/ ForecastingTab
    \/ AnomalyTab
    \/ ClassificationTab
    \/ ImputationTab
    \/ LeaveTab
    \/ AboutTab
    \/ MainAgain
    \/ Rerun

Spec == Init /\ [][Next]_vars

-----------------------------------------------------------------------------
(* Properties *)

\* the DataFrame of the tab main() is in
ViewFrame ==
    CASE view.tab = "Forecasting"    -> RAW_FORECASTING_DATA
      [] view.tab = "Anomaly"        -> RAW_ANOMALY_DATA
      [] view.tab = "Classification" -> RAW_CLASSIFICATION_DATA
      [] view.tab = "Imputation"     -> RAW_IMPUTATION_DATA
      [] OTHER                       -> [cols |-> <<>>, rows |-> <<>>]

\* the tables the tab main() is in has handed to st.dataframe
Tables == Range(view.tables)

\* the rows of the tab's DataFrame whose Type checkbox is checked (and, in the
\* Imputation tab, whose Mask checkbox is checked)
AcceptedRows ==
    {i \in 1..Len(ViewFrame.rows) :
        /\ ViewFrame.rows[i]["Type"] \in view.checked_types
        /\ view.tab = "Imputation" => ViewFrame.rows[i]["Mask"] \in view.selected_masks}

\* the accepted rows in the order of the DataFrame
InsertionOrder == Keep([i \in 1..Len(ViewFrame.rows) |-> i], AcceptedRows)

\* idx lists each element of S once
ListsOnce(idx, S) == Range(idx) = S /\ Len(idx) = Cardinality(S)

\* the cell of row i in column c
Cell(i, c) == ViewFrame.rows[i][c]

\* the primary metric of a table and the direction the tables are meant to
\* be ordered in
PrimaryMetric(name) ==
    CASE name = "Commercial"     -> OOD_COMM
      [] name = "Residential"    -> OOD_RES
      [] name = "Anomaly"        -> "F1-score"
      [] name = "Classification" -> "F1-score"
      [] name = "Imputation"     -> "MSE"

LowerIsBetter(name) == name \in {"Commercial", "Residential", "Imputation"}

HasPrimary(tb) == PrimaryMetric(tb.name) \in Range(tb.cols)

\* C1: every table handed to st.dataframe shows exactly the rows whose Type
\* checkbox is checked (in the Imputation tab: and whose Mask checkbox is
\* checked), each once: no unchecked row is shown, no checked row is dropped.
C1_FilterExact == \A tb \in Tables : ListsOnce(tb.idx, AcceptedRows)

\* C1 witness: the Imputation table shows a row and leaves out a row whose
\* Type is checked and whose Mask is not
C1_Witness ==
    /\ view.tab = "Imputation"
    /\ \E tb \in Tables :
        /\ tb.idx # <<>>
        /\ \E i \in 1..Len(ViewFrame.rows) :
            /\ i \notin Range(tb.idx)
            /\ ViewFrame.rows[i]["Type"] \in view.checked_types
            /\ ViewFrame.rows[i]["Mask"] \notin view.selected_masks

\* the type checkboxes of the tab were drawn and every one is unchecked
NoTypeChecked ==
    /\ view.tab \in Tasks
    /\ view.unique_types # <<>>
    /\ view.checked_types = {}

\* C2: in every task, with every model-type checkbox unchecked the tab runs
\* to its end and every table it shows is empty (and the Anomaly,
\* Classification and Imputation tabs show their table): no exception, no
\* halt of the render, no fallback to all rows.
C2_EmptySelectionEmptyTable ==
    NoTypeChecked =>
        /\ pc \notin {"Crashed", "Stopped"}
        /\ \A tb \in Tables : tb.idx = <<>>
        /\ view.tab # "Forecasting" => Tables # {}

\* C2, as far as it holds: the Anomaly and Classification tabs show an
\* empty table and the tab runs to its end
C2_Witness ==
    /\ NoTypeChecked
    /\ view.tab = "Anomaly"
    /\ pc = "Anomaly:end"
    /\ \E tb \in Tables : tb.idx = <<>>

\* C3: every displayed table has Icon and Model as its first two columns,
\* once each, followed only by checked metric columns; the Commercial table
\* only by checked Commercial columns, the Residential table only by checked
\* Residential columns.
C3_IdentityColumnsFirst ==
    \A tb \in Tables :
        /\ Len(tb.cols) >= 2
        /\ tb.cols[1] = "Icon"
        /\ tb.cols[2] = "Model"
        /\ \A k \in 3..Len(tb.cols) :
            /\ tb.cols[k] \notin {"Icon", "Model"}
            /\ tb.cols[k] \in view.checked_cols
            /\ tb.name = "Commercial" => HasCommercial(tb.cols[k])
            /\ tb.name = "Residential" => HasResidential(tb.cols[k])

\* C3 witness: a table is displayed with a checked metric column while
\* another metric column of the tab is unchecked
C3_Witness ==
    /\ view.tab = "Anomaly"
    /\ view.checked_cols = {"Precision"}
    /\ \E tb \in Tables : tb.cols = <<"Icon", "Model", "Precision">>

\* C4: a displayed table that has its primary metric column lists the
\* accepted rows once each, and adjacent rows with present values are in the
\* task's direction: non-decreasing for the Forecasting tables and
\* Imputation, non-increasing for Anomaly Detection and Classification.
C4_SortedByPrimaryMetric ==
    \A tb \in Tables : HasPrimary(tb) =>
        /\ ListsOnce(tb.idx, AcceptedRows)
        /\ \A k \in 1..(Len(tb.idx) - 1) :
            LET a == Cell(tb.idx[k], PrimaryMetric(tb.name))
                b == Cell(tb.idx[k + 1], PrimaryMetric(tb.name))
            IN (a # NA /\ b # NA) =>
                  IF LowerIsBetter(tb.name) THEN a <= b ELSE a >= b

\* C4 witness: the Anomaly table shows two rows with different F1-scores in
\* an order that is not the order of the DataFrame
C4_Witness ==
    /\ view.tab = "Anomaly"
    /\ \E tb \in Tables :
        /\ HasPrimary(tb)
        /\ Len(tb.idx) = 2
        /\ tb.idx[1] > tb.idx[2]
        /\ Cell(tb.idx[1], "F1-score") > Cell(tb.idx[2], "F1-score")
        /\ Cell(tb.idx[2], "F1-score") # NA

\* C5: in a displayed table that has its primary metric column, no row with
\* a missing value of that metric stands before a row with a present value.
C5_MissingLast ==
    \A tb \in Tables : HasPrimary(tb) =>
        \A k, l \in 1..Len(tb.idx) :
            (k < l /\ Cell(tb.idx[k], PrimaryMetric(tb.name)) = NA)
                => Cell(tb.idx[l], PrimaryMetric(tb.name)) = NA

\* C5 witness: in a table sorted in descending direction a row with a missing
\* F1-score that precedes a row with a present one in the DataFrame is shown
\* after it
C5_Witness ==
    /\ view.tab = "Classification"
    /\ \E tb \in Tables :
        /\ HasPrimary(tb)
        /\ Len(tb.idx) = 2
        /\ tb.idx = <<2, 1>>
        /\ Cell(1, "F1-score") = NA
        /\ Cell(2, "F1-score") # NA

\* C6: a displayed table without its primary metric column keeps the order
\* of the DataFrame, and the condition is reported (a warning is shown).
C6_FallbackKeepsOrderAndReports ==
    \A tb \in Tables : ~HasPrimary(tb) =>
        /\ tb.idx = InsertionOrder
        /\ view.warnings # {}

\* rows i and j differ in a cell the table shows
VisiblyDifferent(tb, i, j) == \E c \in Range(tb.cols) : Cell(i, c) # Cell(j, c)

\* C7: the sort is stable: of two displayed rows with equal values of the
\* primary metric, the one that is first in the DataFrame is shown first
\* (stated for rows that differ in a displayed cell, where the order shows).
C7_StableSort ==
    \A tb \in Tables : HasPrimary(tb) =>
        \A k, l \in 1..Len(tb.idx) :
            (/\ k < l
             /\ Cell(tb.idx[k], PrimaryMetric(tb.name)) = Cell(tb.idx[l], PrimaryMetric(tb.name))
             /\ VisiblyDifferent(tb, tb.idx[k], tb.idx[l]))
                => tb.idx[k] < tb.idx[l]

\* C8: no two rows of a displayed table share the same (Model, Type) pair.
C8_UniqueModelType ==
    \A tb \in Tables : \A k, l \in 1..Len(tb.idx) :
        k # l => \/ Cell(tb.idx[k], "Model") # Cell(tb.idx[l], "Model")
                 \/ Cell(tb.idx[k], "Type") # Cell(tb.idx[l], "Type")

\* the accepted rows with the (Model, Type) pair of row i and a present value
\* in column c
PresentOfPair(i, c) ==
    {j \in AcceptedRows :
        /\ Cell(j, "Model") = Cell(i, "Model")
        /\ Cell(j, "Type") = Cell(i, "Type")
        /\ Cell(j, c) # NA}

RECURSIVE SumCells(_, _)
SumCells(S, c) ==
    IF S = {} THEN 0
    ELSE LET j == CHOOSE x \in S : TRUE IN Cell(j, c) + SumCells(S \ {j}, c)

\* C9: every metric cell of a displayed row is the arithmetic mean of the
\* present values of that metric over the rows with the row's (Model, Type)
\* pair, and missing when none is present.
C9_DisplayedMean ==
    \A tb \in Tables : \A k \in 1..Len(tb.idx) :
        \A c \in Range(tb.cols) \ {"Icon", "Model", "Mask"} :
            LET i == tb.idx[k]
                P == PresentOfPair(i, c)
            IN IF P = {} THEN Cell(i, c) = NA
               ELSE /\ Cell(i, c) # NA
                    /\ Cell(i, c) * Cardinality(P) = SumCells(P, c)

\* C10: the four loaded DataFrames are as read_csv left them: same columns,
\* same cells.
C10_RawDataUnchanged ==
    /\ RAW_FORECASTING_DATA = read_csv("Forecasting", csv)
    /\ RAW_ANOMALY_DATA = read_csv("Anomaly", csv)
    /\ RAW_CLASSIFICATION_DATA = read_csv("Classification", csv)
    /\ RAW_IMPUTATION_DATA = read_csv("Imputation", csv)

\* the five tabs of the page
TabNames == Tasks \cup {"About"}

\* C11: the task pipelines are isolated: when main() has ended, however one
\* tab ended (an exception, the Imputation halt), every other tab, the About
\* tab included, was rendered, and main() did not end by an exception.
C11_TabsIsolated ==
    Ended =>
        /\ pc # "Crashed"
        /\ \A t \in TabNames \ {view.tab} : t \in rendered

\* C11, the case the code handles: main() ended with all five tabs rendered
C11_Witness == pc = "Done" /\ rendered = TabNames

\* the rows whose Type cell is absent in the CSV file
AbsentTypeRows == {i \in 1..Len(csv) : csv[i][2] = NaN}

\* the 'Unknown' checkbox is drawn with the question-mark icon
UnknownOffered ==
    \E k \in 1..Len(view.checkboxes) :
        view.checkboxes[k].text = "Unknown" /\ view.checkboxes[k].icon = "question"

\* the 'Unknown' checkbox is checked
UnknownChecked ==
    \E k \in 1..Len(view.checkboxes) :
        view.checkboxes[k].text = "Unknown" /\ view.checkboxes[k].checked

\* C12: in every task, once the tab has drawn its type checkboxes, a row whose
\* Type is absent has category "Unknown", an 'Unknown' checkbox with the
\* question-mark icon is offered, the row's Icon cell is the question mark,
\* and a displayed table shows the row if and only if 'Unknown' is checked
\* (and, in the Imputation tab, the row's Mask is checked).
C12_AbsentTypeIsUnknown ==
    (view.tab \in Tasks /\ view.checkboxes # <<>>) =>
        \A i \in AbsentTypeRows :
            /\ Cell(i, "Type") = "Unknown"
            /\ UnknownOffered
            /\ Cell(i, "Icon") = "question"
            /\ \A tb \in Tables :
                i \in Range(tb.idx) <=>
                    /\ UnknownChecked
                    /\ view.tab = "Imputation" => Cell(i, "Mask") \in view.selected_masks

\* C12, where the code does it: the Classification table shows a row with an
\* absent Type under the checked 'Unknown' checkbox, with the question mark
C12_Witness ==
    /\ view.tab = "Classification"
    /\ UnknownOffered /\ UnknownChecked
    /\ \E tb \in Tables : \E i \in AbsentTypeRows :
        /\ i \in Range(tb.idx)
        /\ Cell(i, "Type") = "Unknown"
        /\ Cell(i, "Icon") = "question"

\* main() is at the end of a task tab's with-block: the tab ran through
AtTabEnd == pc \in {"Forecasting:end", "Anomaly:end", "Classification:end", "Imputation:end"}

C14_WarningIffNoTable ==
    pc = "Forecasting:end" =>
        (FORECAST_WARNING \in view.warnings <=> Tables = {})

\* C14, the direction that holds: the warning is shown and no table is
C14_Witness ==
    /\ pc = "Forecasting:end"
    /\ FORECAST_WARNING \in view.warnings
    /\ Tables = {}
    /\ view.show_commercial
    /\ view.checked_cols = {}

====
